---- MODULE Spec2Model ----
(***************************************************************************)
(* Model of the LA Works volunteer-opportunity scraper (src/scraper.py,    *)
(* src/config.py, src/models.py), of its entry point (src/main.py) and of  *)
(* the zip-code choropleth builder (src/visualize.py).                      *)
(*                                                                          *)
(* Python str values are TLA+ strings; a character is a string of length   *)
(* one, taken with SubSeq.  Python's None is the sentinel string None.     *)
(***************************************************************************)
EXTENDS Integers, Sequences, FiniteSets, TLC

VARIABLES
    pc,            \* position of scrape_search_results / its callees
    page_rows,     \* the rows the site serves: row i of the table is RowAt(i)
    row_count,     \* number of result rows currently attached to the DOM
    click_num,     \* loop variable of _load_all_results
    clicks,        \* number of load_more.click() calls performed
    exit_state,    \* how _load_all_results ended
    count,         \* rows.count() read at the start of _extract_all_rows
    error,         \* where an exception left scrape_search_results, or None
    opportunities, \* the list _extract_all_rows accumulates
    sources,       \* row index each element of opportunities came from
    attempted,     \* row indexes handed to _extract_row, in order
    row,           \* the row handed to _extract_row (field extractor runs)
    result,        \* what _extract_row did with that row
    csv_rows,      \* rows csv.DictReader yields from opportunities.csv
    boundaries,    \* boundaries["features"]
    mpc,           \* position of visualize.main
    by_zip,        \* group_by_zip()[0]
    virtual,       \* group_by_zip()[1]
    zip_key,       \* zip_key of build_choropleth_geojson
    features,      \* geojson["features"]
    matched,       \* matched of build_choropleth_geojson
    stats,         \* summary scalars of generate_html
    unmatched,     \* unmatched of build_choropleth_geojson
    events,        \* the page and browser operations performed so far, in order
    rpc,           \* position of main.run
    stops,         \* number of scraper.stop() invocations
    saved,         \* what save_results wrote to opportunities.json / .csv
    run_error,     \* the exception main.run ended with, or None
    cache,         \* the file BOUNDARIES_CACHE: absent, or present with its content
    fetches,       \* number of urlopen(BOUNDARIES_URL) calls performed
    calls,         \* number of download_boundaries calls made
    call           \* what the latest download_boundaries call saw and did

vars == <<pc, page_rows, row_count, click_num, clicks, exit_state, count, error,
          opportunities, sources, attempted, row, result, csv_rows,
          boundaries, mpc, by_zip, virtual, zip_key, features, matched, stats,
          unmatched, events, rpc, stops, saved, run_error, cache, fetches,
          calls, call>>

scraper_vars == <<pc, page_rows, row_count, click_num, clicks, exit_state,
                  count, error, opportunities, sources, attempted, events>>
extract_vars == <<row, result>>
map_vars == <<csv_rows, boundaries, mpc, by_zip, virtual, zip_key, features,
              matched, stats, unmatched>>
run_vars == <<rpc, stops, saved, run_error>>
cache_vars == <<cache, fetches, calls, call>>

-----------------------------------------------------------------------------
(* Python values *)

None == "<None>"

\* truthiness of an Optional[str]: None and "" are falsy
Truthy(s) == s # None /\ s # ""

Whitespace == {" ", "\n", "\t"}

Char(s, k) == SubSeq(s, k, k)

RECURSIVE LStrip(_)
LStrip(s) == IF Len(s) > 0 /\ Char(s, 1) \in Whitespace
             THEN LStrip(SubSeq(s, 2, Len(s)))
             ELSE s

RECURSIVE RStrip(_)
RStrip(s) == IF Len(s) > 0 /\ Char(s, Len(s)) \in Whitespace
             THEN RStrip(SubSeq(s, 1, Len(s) - 1))
             ELSE s

\* str.strip()
Strip(s) == RStrip(LStrip(s))

UpperLetters ==
    <<"A", "B", "C", "D", "E", "F", "G", "H", "I", "J", "K", "L", "M",
      "N", "O", "P", "Q", "R", "S", "T", "U", "V", "W", "X", "Y", "Z">>
LowerLetters ==
    <<"a", "b", "c", "d", "e", "f", "g", "h", "i", "j", "k", "l", "m",
      "n", "o", "p", "q", "r", "s", "t", "u", "v", "w", "x", "y", "z">>
Upper == {UpperLetters[k] : k \in 1..26}
Letters == Upper \cup {LowerLetters[k] : k \in 1..26}
Digits == {"0", "1", "2", "3", "4", "5", "6", "7", "8", "9"}

IsDigit(c) == c \in Digits
IsAlnum(c) == c \in Digits \cup Letters

ToLower == [c \in Upper |-> LowerLetters[CHOOSE k \in 1..26 : UpperLetters[k] = c]]
LowerChar(c) == IF c \in Upper THEN ToLower[c] ELSE c

RECURSIVE Lower(_)
\* str.lower()
Lower(s) == IF Len(s) = 0 THEN ""
            ELSE LowerChar(Char(s, 1)) \o Lower(SubSeq(s, 2, Len(s)))

\* str.startswith(p)
StartsWith(s, p) == Len(s) >= Len(p) /\ SubSeq(s, 1, Len(p)) = p

\* the Python test  m in s  on two str values
Contains(s, m) ==
    \E k \in 1..(Len(s) - Len(m) + 1) : SubSeq(s, k, k + Len(m) - 1) = m

-----------------------------------------------------------------------------
(* src/config.py *)

BASE_URL == "https://volunteer.laworks.com"

\* dict in insertion order: (marker class, type name)
OPP_TYPE_CLASSES ==
    << <<"blue-key", "Volunteer Opportunity">>,
       <<"green-key", "Special Event">>,
       <<"light-gray-key", "Already Filled">>,
       <<"yellow-key", "Training">> >>

MAX_LOAD_MORE_CLICKS == 20

-----------------------------------------------------------------------------
(* src/scraper.py: the field extractor *)

\* A result row as the page object exposes it.  A text field that is None
\* stands for an element the locator does not find: reading it raises.
\*   title, href, link_class : first anchor of the "Opportunity" cell
\*   organization, org_href  : first anchor of the "Organization" cell
\*   where, distance         : inner text of the "Where" / "Distance" cell
\*   time_cell               : NoCell, or the "Time" cell with its data-order
\*                             attribute, its optional .date-row, .time-row
\*                             and .duration elements (None when count() = 0)
\*                             and the text the cell holds outside them
NoCell == [missing |-> TRUE]

TitleTexts == {None, "  ", " Beach Cleanup "}
Hrefs == {None, "", "/opportunity/a0CQg", "https://ext.org/e",
          "opportunity/a0CQg"}
LinkClasses == {None, "btn", "blue-key", "yellow-key green-key",
                "light-gray-key", "title yellow-key"}
OrgTexts == {None, "", "LA Works\n"}
OrgHrefs == {None, "/organization/001", "organization/001"}
WhereTexts == {None, " Los Angeles, CA 90065 "}
DistanceTexts == {None, "1.2 mi"}
TimeCells == [data_order : {None, "2026-11-07T09:00"},
              date_el : {None, "", "Sat, Nov 7 "},
              time_el : {None, "9:00am"},
              dur_el : {None, "2 hrs"},
              text : {"", " Ongoing", "ONGOING need", "Flexible"}]

Rows == [title : TitleTexts, href : Hrefs, link_class : LinkClasses,
         organization : OrgTexts, org_href : OrgHrefs, where : WhereTexts,
         time_cell : {NoCell} \cup TimeCells, distance : DistanceTexts]

\* inner_text() of an element: the text, or "" for an absent child
Txt(s) == IF s = None THEN "" ELSE s

\* time_cell.inner_text(): the text of the cell with that of its children
TimeCellInnerText(tc) ==
    Txt(tc.date_el) \o " " \o Txt(tc.time_el) \o " " \o Txt(tc.dur_el) \o tc.text

RECURSIVE AlnumRun(_, _)
AlnumRun(s, k) == IF k <= Len(s) /\ IsAlnum(Char(s, k))
                  THEN Char(s, k) \o AlnumRun(s, k + 1)
                  ELSE ""

Min(S) == CHOOSE x \in S : \A y \in S : x <= y

\* re.search(r"/opportunity/([a-zA-Z0-9]+)", href)
_extract_id_from_href(href) ==
    IF ~Truthy(href) THEN None
    ELSE LET starts == {k \in 1..(Len(href) - 13) :
                           /\ SubSeq(href, k, k + 12) = "/opportunity/"
                           /\ IsAlnum(Char(href, k + 13))}
         IN  IF starts = {} THEN None ELSE AlnumRun(href, Min(starts) + 13)

\* opp_url = f"{BASE_URL}{href}" if href and href.startswith("/") else href
opp_url(href) ==
    IF Truthy(href) /\ StartsWith(href, "/") THEN BASE_URL \o href ELSE href

\* org_url = f"{BASE_URL}{org_href}" if org_href and ... else org_href
org_url(org_href) ==
    IF Truthy(org_href) /\ StartsWith(org_href, "/")
    THEN BASE_URL \o org_href ELSE org_href

opp_type_last(link_class) ==
    LET lc == IF Truthy(link_class) THEN link_class ELSE ""
        hits == {k \in 1..Len(OPP_TYPE_CLASSES) :
                    Contains(lc, OPP_TYPE_CLASSES[k][1])}
    IN  IF hits = {} THEN "Volunteer Opportunity"
        ELSE OPP_TYPE_CLASSES[CHOOSE k \in hits : \A j \in hits : j <= k][2]

\* opp_type: the first entry of OPP_TYPE_CLASSES whose class is a substring of
\* the class attribute (None read as "")
opp_type(link_class) ==
    LET lc == IF Truthy(link_class) THEN link_class ELSE ""
        hits == {k \in 1..Len(OPP_TYPE_CLASSES) :
                    Contains(lc, OPP_TYPE_CLASSES[k][1])}
    IN  IF hits = {} THEN "Volunteer Opportunity"
        ELSE OPP_TYPE_CLASSES[Min(hits)][2]

\* (await el.inner_text()).strip() if await el.count() > 0 else None
SubElementText(el) == IF el # None THEN Strip(el) ELSE None

date_str_cased(tc) ==
    LET d == SubElementText(tc.date_el)
    IN  IF ~Truthy(d)
        THEN IF Contains(Strip(TimeCellInnerText(tc)), "ongoing")
             THEN "Ongoing" ELSE d
        ELSE d

\* date_str after the "Ongoing" fallback
date_str(tc) ==
    LET d == SubElementText(tc.date_el)
    IN  IF ~Truthy(d)
        THEN IF Contains(Lower(Strip(TimeCellInnerText(tc))), "ongoing")
             THEN "Ongoing" ELSE d
        ELSE d

\* lookups whose failure raises out of _extract_row
RowRaises(r) ==
    \/ r.title = None
    \/ r.organization = None
    \/ r.where = None
    \/ r.time_cell = NoCell
    \/ r.distance = None

\* _extract_row(row): raised, or the Opportunity built
\* (scraped_at, the wall-clock stamp of the dataclass, is left out)
_extract_row(r) ==
    IF RowRaises(r) THEN [raised |-> TRUE]
    ELSE [raised |-> FALSE,
          opp |-> [title |-> Strip(r.title),
                   organization |-> Strip(r.organization),
                   location |-> Strip(r.where),
                   date |-> date_str(r.time_cell),
                   time |-> SubElementText(r.time_cell.time_el),
                   duration |-> SubElementText(r.time_cell.dur_el),
                   datetime_iso |-> r.time_cell.data_order,
                   distance |-> Strip(r.distance),
                   opportunity_type |-> opp_type(r.link_class),
                   opportunity_url |-> opp_url(r.href),
                   opportunity_id |-> _extract_id_from_href(r.href),
                   organization_url |-> org_url(r.org_href)]]

-----------------------------------------------------------------------------
(* src/scraper.py: the page, the incremental loader, the result harvester *)

MaxTemplate == 2      \* length of the cycle of rows the site serves
MaxInitialRows == 1   \* rows attached when the first wait returns
MaxGrowth == 1        \* rows one "load more" click adds at most

GoodRow == [title |-> " Beach Cleanup ", href |-> "/opportunity/a0CQg",
            link_class |-> "blue-key", organization |-> "LA Works\n",
            org_href |-> "/organization/001",
            where |-> " Los Angeles, CA 90065 ",
            time_cell |-> [data_order |-> "2026-11-07T09:00",
                           date_el |-> "Sat, Nov 7 ", time_el |-> "9:00am",
                           dur_el |-> "2 hrs", text |-> ""],
            distance |-> "1.2 mi"]
OngoingRow == [GoodRow EXCEPT !.title = "Food Bank",
                              !.href = "opportunity/a0CQh",
                              !.link_class = "title yellow-key",
                              !.time_cell = [data_order |-> None,
                                             date_el |-> None, time_el |-> None,
                                             dur_el |-> None, text |-> " Ongoing"]]
BrokenRow == [GoodRow EXCEPT !.title = None]
BlankRow == [GoodRow EXCEPT !.title = "  "]
SampleRows == {GoodRow, OngoingRow, BrokenRow, BlankRow}

Templates == UNION {[1..n -> SampleRows] : n \in 1..MaxTemplate}

\* rows.nth(k): the k-th row of the table (k counts from 0)
RowAt(rows, k) == rows[(k % Len(rows)) + 1]

\* for click_num in range(1, MAX_LOAD_MORE_CLICKS + 1): the loop is over
LoopExhausted_late(n) == n > MAX_LOAD_MORE_CLICKS + 1
LoopExhausted(n) == n > MAX_LOAD_MORE_CLICKS

\* the end of _load_all_results (the final count is only logged)
LoaderExit(state) ==
    /\ exit_state' = state
    /\ pc' = "extract"

\* the end of one iteration that did not break
LoaderNextIteration ==
    /\ click_num' = click_num + 1
    /\ IF LoopExhausted(click_num + 1)
       THEN LoaderExit("cap-reached")
       ELSE pc' = "load" /\ exit_state' = exit_state

RECURSIVE ExtractEach(_)
\* what _extract_row does with each row of the cycle the site serves
ExtractEach(rows) ==
    IF rows = <<>> THEN <<>>
    ELSE <<_extract_row(Head(rows))>> \o ExtractEach(Tail(rows))

RECURSIVE ExtractLoop(_, _, _, _)
\* for i in range(count): try _extract_row(rows.nth(i)) except Exception: log
\* (each is ExtractEach of the cycle, so RowAt(each, i) is _extract_row of
\* row i)
ExtractLoop(each, k, n, acc) ==
    IF k >= n THEN acc
    ELSE LET res == RowAt(each, k)
             seen == [acc EXCEPT !.attempted = Append(@, k)]
         IN  ExtractLoop(each, k + 1, n,
                 IF res.raised THEN seen
                 ELSE [seen EXCEPT !.opportunities = Append(@, res.opp),
                                   !.sources = Append(@, k)])

RECURSIVE AbortingLoop(_, _, _, _)
AbortingLoop(each, k, n, acc) ==
    IF k >= n THEN acc
    ELSE LET res == RowAt(each, k)
             seen == [acc EXCEPT !.attempted = Append(@, k)]
         IN  IF res.raised THEN [seen EXCEPT !.raised = TRUE]
             ELSE AbortingLoop(each, k + 1, n,
                      [seen EXCEPT !.opportunities = Append(@, res.opp),
                                   !.sources = Append(@, k)])

NoRows == [raised |-> FALSE, opportunities |-> <<>>, sources |-> <<>>,
           attempted |-> <<>>]

_extract_all_rows_abort(rows, n) == AbortingLoop(ExtractEach(rows), 0, n, NoRows)
\* _extract_all_rows over a table of n rows
_extract_all_rows(rows, n) == ExtractLoop(ExtractEach(rows), 0, n, NoRows)

InitScraper ==
    /\ pc = "goto"
    /\ page_rows \in Templates
    /\ row_count = 0
    /\ click_num = 0
    /\ clicks = 0
    /\ exit_state = None
    /\ count = 0
    /\ error = None
    /\ opportunities = <<>>
    /\ sources = <<>>
    /\ attempted = <<>>
    /\ events = <<>>

\* the operations es were performed, in this order
Did(es) == events' = events \o es

Raise(where) ==
    /\ pc' = "raised"
    /\ error' = where

\* page.goto(SEARCH_URL, ...)
Goto ==
    /\ pc = "goto"
    /\ UNCHANGED <<extract_vars, map_vars, run_vars, cache_vars>>
    /\ Did(<<"navigate">>)
    /\ pc' = "wait_rows"
    /\ UNCHANGED <<page_rows, row_count, click_num, clicks, exit_state, count,
                   error, opportunities, sources, attempted>>

GotoFails ==
    /\ pc = "goto"
    /\ UNCHANGED <<extract_vars, map_vars, run_vars, cache_vars>>
    /\ Did(<<"navigate">>)
    /\ Raise("goto")
    /\ UNCHANGED <<page_rows, row_count, click_num, clicks, exit_state, count,
                   opportunities, sources, attempted>>

\* page.wait_for_selector(result_row, state="attached", ...)
WaitForRows ==
    /\ pc = "wait_rows"
    /\ UNCHANGED <<extract_vars, map_vars, run_vars, cache_vars>>
    /\ Did(<<"wait">>)
    /\ \E n \in 1..MaxInitialRows : row_count' = n
    /\ pc' = "settle"
    /\ UNCHANGED <<page_rows, click_num, clicks, exit_state, count, error,
                   opportunities, sources, attempted>>

WaitForRowsTimeout_swallowed ==
    /\ pc = "wait_rows"
    /\ UNCHANGED <<extract_vars, map_vars, run_vars, cache_vars>>
    /\ Did(<<"wait">>)
    /\ error' = "wait_rows"
    /\ pc' = "settle"
    /\ UNCHANGED <<page_rows, row_count, click_num, clicks, exit_state, count,
                   opportunities, sources, attempted>>

WaitForRowsTimeout ==
    /\ pc = "wait_rows"
    /\ UNCHANGED <<extract_vars, map_vars, run_vars, cache_vars>>
    /\ Did(<<"wait">>)
    /\ Raise("wait_rows")
    /\ UNCHANGED <<page_rows, row_count, click_num, clicks, exit_state, count,
                   opportunities, sources, attempted>>

\* asyncio.sleep(3), then _load_all_results is entered
Settle ==
    /\ pc = "settle"
    /\ UNCHANGED <<extract_vars, map_vars, run_vars, cache_vars>>
    /\ Did(<<"settle", "load">>)
    /\ pc' = "load"
    /\ click_num' = 1
    /\ UNCHANGED <<page_rows, row_count, clicks, exit_state, count, error,
                   opportunities, sources, attempted>>

\* load_more.count() == 0 or not load_more.is_visible(): break
LoaderNoControl ==
    /\ pc = "load"
    /\ UNCHANGED <<extract_vars, map_vars, run_vars, cache_vars>>
    /\ Did(<<"no-control">>)
    /\ LoaderExit("fully-loaded")
    /\ UNCHANGED <<page_rows, row_count, click_num, clicks, count, error,
                   opportunities, sources, attempted>>

\* the click lands and the row count grows within LOAD_MORE_WAIT_MS
LoaderClickGrow ==
    /\ pc = "load"
    /\ UNCHANGED <<extract_vars, map_vars, run_vars, cache_vars>>
    /\ Did(<<"click">>)
    /\ clicks' = clicks + 1
    /\ \E g \in 1..MaxGrowth : row_count' = row_count + g
    /\ LoaderNextIteration
    /\ UNCHANGED <<page_rows, count, error, opportunities, sources, attempted>>

LoaderClickTimeout_retry ==
    /\ pc = "load"
    /\ UNCHANGED <<extract_vars, map_vars, run_vars, cache_vars>>
    /\ Did(<<"click", "wait-timeout">>)
    /\ clicks' = clicks + 1
    /\ LoaderNextIteration
    /\ UNCHANGED <<page_rows, row_count, count, error, opportunities, sources,
                   attempted>>

\* the click lands and wait_for_function times out: break
LoaderClickTimeout ==
    /\ pc = "load"
    /\ UNCHANGED <<extract_vars, map_vars, run_vars, cache_vars>>
    /\ Did(<<"click", "wait-timeout">>)
    /\ clicks' = clicks + 1
    /\ LoaderExit("fully-loaded")
    /\ UNCHANGED <<page_rows, row_count, click_num, count, error,
                   opportunities, sources, attempted>>

\* load_more.click() raises (the control detached, the click timed out):
\* nothing catches it
LoaderClickRaises ==
    /\ pc = "load"
    /\ UNCHANGED <<extract_vars, map_vars, run_vars, cache_vars>>
    /\ Did(<<"click">>)
    /\ clicks' = clicks + 1
    /\ Raise("click")
    /\ UNCHANGED <<page_rows, row_count, click_num, exit_state, count,
                   opportunities, sources, attempted>>

ExtractAllRows ==
    /\ pc = "extract"
    /\ UNCHANGED <<extract_vars, map_vars, run_vars, cache_vars>>
    /\ Did(<<"extract">>)
    /\ count' = row_count
    /\ LET out == _extract_all_rows(page_rows, row_count)
       IN  /\ opportunities' = out.opportunities
           /\ sources' = out.sources
           /\ attempted' = out.attempted
           /\ IF out.raised THEN Raise("extract")
              ELSE pc' = "returned" /\ error' = error
    /\ UNCHANGED <<page_rows, row_count, click_num, clicks, exit_state>>

NextScraper ==
    \/ Goto
    \/ GotoFails
    \/ WaitForRows
    \/ WaitForRowsTimeout
    \/ Settle
    \/ LoaderNoControl
    \/ LoaderClickGrow
    \/ LoaderClickTimeout
    \/ LoaderClickRaises
    \/ ExtractAllRows

\* the field extractor and the map builder are not running
\* _extract_row has not run
NotRun == [pending |-> TRUE]

ExtractIdle ==
    /\ row = GoodRow
    /\ result = NotRun

MapIdle ==
    /\ csv_rows = <<>>
    /\ boundaries = <<>>
    /\ mpc = "idle"
    /\ by_zip = <<>>
    /\ virtual = <<>>
    /\ zip_key = None
    /\ features = <<>>
    /\ matched = {}
    /\ stats = NotRun
    /\ unmatched = {}

ScraperIdle ==
    /\ pc = "idle"
    /\ page_rows = <<GoodRow>>
    /\ row_count = 0
    /\ click_num = 0
    /\ clicks = 0
    /\ exit_state = None
    /\ count = 0
    /\ error = None
    /\ opportunities = <<>>
    /\ sources = <<>>
    /\ attempted = <<>>
    /\ events = <<>>

\* save_results has not written anything
NotSaved == [json |-> FALSE, csv |-> FALSE, records |-> <<>>]

\* main.run is not running
RunIdle ==
    /\ rpc = "idle"
    /\ stops = 0
    /\ saved = NotSaved
    /\ run_error = None

\* download_boundaries has not been called
NotCalled == [pending |-> TRUE]

\* os.path.exists(BOUNDARIES_CACHE) is false
NoFile == [exists |-> FALSE]

CacheIdle ==
    /\ cache = NoFile
    /\ fetches = 0
    /\ calls = 0
    /\ call = NotCalled

\* one scrape_search_results call of the harvester
Init == InitScraper /\ ExtractIdle /\ MapIdle /\ RunIdle /\ CacheIdle
Next == NextScraper
Spec == Init /\ [][Next]_vars

-----------------------------------------------------------------------------
(* The field extractor applied to one row *)

InitExtract ==
    /\ ScraperIdle
    /\ MapIdle
    /\ RunIdle
    /\ CacheIdle
    /\ row \in Rows
    /\ result = NotRun

ExtractRow ==
    /\ result = NotRun
    /\ result' = _extract_row(row)
    /\ UNCHANGED <<row, scraper_vars, map_vars, run_vars, cache_vars>>

NextExtract == ExtractRow
SpecExtract == InitExtract /\ [][NextExtract]_vars

-----------------------------------------------------------------------------
(* src/visualize.py: the zip aggregator *)

IsWord(c) == c \in Digits \cup Letters \cup {"_"}

\* \b(\d{5})\b matches s at position k
ZipAt(s, k) ==
    /\ k + 4 <= Len(s)
    /\ \A j \in 0..4 : IsDigit(Char(s, k + j))
    /\ k = 1 \/ ~IsWord(Char(s, k - 1))
    /\ k + 4 = Len(s) \/ ~IsWord(Char(s, k + 5))

extract_zipcode_unanchored(location) ==
    LET s == IF Truthy(location) THEN location ELSE ""
        starts == {k \in 1..(Len(s) - 4) :
                      \A j \in 0..4 : IsDigit(Char(s, k + j))}
    IN  IF starts = {} THEN None
        ELSE SubSeq(s, Min(starts), Min(starts) + 4)

\* ZIP_RE.search(location or ""): group 1 of the leftmost match, or None
extract_zipcode(location) ==
    LET s == IF Truthy(location) THEN location ELSE ""
        starts == {k \in 1..(Len(s) - 4) : ZipAt(s, k)}
    IN  IF starts = {} THEN None
        ELSE SubSeq(s, Min(starts), Min(starts) + 4)

\* ZIP_RE.fullmatch(val) on a str
ZipFullMatch(val) == Len(val) = 5 /\ ZipAt(val, 1)

\* dict.get(key, default) on a mapping held as a TLA+ function
Get(o, key, default) == IF key \in DOMAIN o THEN o[key] ELSE default

SetDefaultAppend_replace(d, zc, r) ==
    IF zc \in DOMAIN d THEN [d EXCEPT ![zc] = <<r>>]
    ELSE d @@ (zc :> <<r>>)

\* by_zip.setdefault(zc, []).append(row)
SetDefaultAppend(d, zc, r) ==
    IF zc \in DOMAIN d THEN [d EXCEPT ![zc] = Append(@, r)]
    ELSE d @@ (zc :> <<r>>)

RECURSIVE GroupLoop(_, _, _)
\* for row in csv.DictReader(f): ...
GroupLoop(rows, k, acc) ==
    IF k > Len(rows) THEN acc
    ELSE LET zc == extract_zipcode(Get(rows[k], "location", ""))
         IN  GroupLoop(rows, k + 1,
                 IF Truthy(zc)
                 THEN [acc EXCEPT !.by_zip = SetDefaultAppend(@, zc, rows[k])]
                 ELSE [acc EXCEPT !.virtual = Append(@, rows[k])])

\* group_by_zip: (by_zip, virtual)
group_by_zip(rows) == GroupLoop(rows, 1, [by_zip |-> <<>>, virtual |-> <<>>])

-----------------------------------------------------------------------------
(* src/visualize.py: the boundary matcher *)

\* A property value of a boundary feature is a JSON string [str |-> s] or a
\* JSON integer [int |-> n]; the properties of a feature are its (key, value)
\* pairs in the order of the file.
IsStr(v) == "str" \in DOMAIN v

DigitChars == <<"0", "1", "2", "3", "4", "5", "6", "7", "8", "9">>

RECURSIVE IntStr(_)
\* str(n) of an int n >= 0
IntStr(n) == IF n < 10 THEN DigitChars[n + 1]
             ELSE IntStr(n \div 10) \o DigitChars[(n % 10) + 1]

\* str(v)
PyStr(v) == IF IsStr(v) THEN v.str ELSE IntStr(v.int)

\* props.get(key, default)
PropGet(props, key, default) ==
    LET at == {j \in 1..Len(props) : props[j][1] = key}
    IN  IF at = {} THEN default ELSE props[Min(at)][2]

ZIP_KEY_CANDIDATES ==
    <<"ZCTA5CE10", "ZCTA5CE20", "ZIP", "ZIPCODE", "zip", "GEOID10", "GEOID20">>

\* isinstance(val, str) and ZIP_RE.fullmatch(val)
IsZipValue(val) == IsStr(val) /\ ZipFullMatch(val.str)

\* _find_zip_property(feature): the key, or None
_find_zip_property(feature) ==
    LET props == feature.properties
        named == {k \in 1..Len(ZIP_KEY_CANDIDATES) :
                     IsZipValue(PropGet(props, ZIP_KEY_CANDIDATES[k], [str |-> ""]))}
        own == {j \in 1..Len(props) : IsZipValue(props[j][2])}
    IN  IF named # {} THEN ZIP_KEY_CANDIDATES[Min(named)]
        ELSE IF own # {} THEN props[Min(own)][1]
        ELSE None

\* boundaries["features"][:5]
SCAN_LIMIT == 5

RECURSIVE ScanLoop(_, _, _)
\* for feat in boundaries["features"][:5]:
\*     zip_key = _find_zip_property(feat); if zip_key: break
ScanLoop(feats, k, key) ==
    IF k > Len(feats) \/ k > SCAN_LIMIT THEN key
    ELSE LET found == _find_zip_property(feats[k])
         IN  IF Truthy(found) THEN found ELSE ScanLoop(feats, k + 1, found)

\* zip_key as the scan leaves it (None before the first feature)
ScanForZipKey(feats) == ScanLoop(feats, 1, None)

\* the summary build_choropleth_geojson keeps of one record
Summary(o) ==
    [title |-> o["title"],
     organization |-> o["organization"],
     date |-> Get(o, "date", ""),
     time |-> Get(o, "time", ""),
     type |-> Get(o, "opportunity_type", ""),
     url |-> Get(o, "opportunity_url", "")]

\* [f(o) for o in opps]
Summaries(opps) == [k \in 1..Len(opps) |-> Summary(opps[k])]

JoinedFeature_count1(feature, zc, opps) ==
    [type |-> "Feature",
     geometry |-> feature.geometry,
     properties |-> [zipcode |-> zc,
                     count |-> 1,
                     opportunities |-> Summaries(opps)]]

\* the feature appended for a boundary feature whose zip is zc
JoinedFeature(feature, zc, opps) ==
    [type |-> "Feature",
     geometry |-> feature.geometry,
     properties |-> [zipcode |-> zc,
                     count |-> Len(opps),
                     opportunities |-> Summaries(opps)]]

\* if zc in by_zip
InAggregation(zc, bz) == zc \in DOMAIN bz

RECURSIVE JoinLoop(_, _, _, _, _)
\* for feature in boundaries["features"]: ...
JoinLoop(bz, feats, key, k, acc) ==
    IF k > Len(feats) THEN acc
    ELSE LET zc == PyStr(PropGet(feats[k].properties, key, [str |-> ""]))
         IN  JoinLoop(bz, feats, key, k + 1,
                 IF InAggregation(zc, bz)
                 THEN [features |-> Append(acc.features,
                                       JoinedFeature(feats[k], zc, bz[zc])),
                       matched |-> acc.matched \cup {zc}]
                 ELSE acc)

build_choropleth_geojson_default(bz, feats) ==
    LET found == ScanForZipKey(feats)
        key == IF Truthy(found) THEN found ELSE ZIP_KEY_CANDIDATES[1]
        out == JoinLoop(bz, feats, key, 1, [features |-> <<>>, matched |-> {}])
    IN  [raised |-> FALSE, zip_key |-> key,
         features |-> out.features,
         matched |-> out.matched,
         unmatched |-> DOMAIN bz \ out.matched]

\* build_choropleth_geojson(by_zip, boundaries): raised (ValueError), or the
\* features of the collection with the matched and unmatched zips
build_choropleth_geojson(bz, feats) ==
    LET key == ScanForZipKey(feats)
    IN  IF ~Truthy(key)
        THEN [raised |-> TRUE, zip_key |-> key]
        ELSE LET out == JoinLoop(bz, feats, key, 1,
                                 [features |-> <<>>, matched |-> {}])
             IN  [raised |-> FALSE, zip_key |-> key,
                  features |-> out.features,
                  matched |-> out.matched,
                  unmatched |-> DOMAIN bz \ out.matched]

-----------------------------------------------------------------------------
(* src/visualize.py: the feature collection builder *)

RECURSIVE Sum(_)
Sum(q) == IF q = <<>> THEN 0 ELSE Head(q) + Sum(Tail(q))

\* f["properties"]["count"] for f in geojson["features"]
Counts(feats) == [k \in 1..Len(feats) |-> feats[k].properties.count]

max_count_zero(feats) ==
    IF feats = <<>> THEN 0
    ELSE CHOOSE m \in {Counts(feats)[k] : k \in 1..Len(feats)} :
             \A k \in 1..Len(feats) : Counts(feats)[k] <= m

\* max((f["properties"]["count"] for f in geojson["features"]), default=1)
max_count(feats) ==
    IF feats = <<>> THEN 1
    ELSE CHOOSE m \in {Counts(feats)[k] : k \in 1..Len(feats)} :
             \A k \in 1..Len(feats) : Counts(feats)[k] <= m

\* the entry of virtual_list for one record
VirtualSummary(o) ==
    [title |-> o["title"],
     organization |-> o["organization"],
     date |-> Get(o, "date", ""),
     type |-> Get(o, "opportunity_type", ""),
     url |-> Get(o, "opportunity_url", "")]

\* the values generate_html puts into the template
generate_html(feats, virtual_opps) ==
    [virtual_list |-> [k \in 1..Len(virtual_opps) |-> VirtualSummary(virtual_opps[k])],
     total_mapped |-> Sum(Counts(feats)),
     total_zips |-> Len(feats),
     virtual_count |-> Len(virtual_opps),
     max_count |-> max_count(feats)]

-----------------------------------------------------------------------------
(* src/visualize.py: main *)

MaxCsvRows == 3     \* rows of opportunities.csv
MaxFeatures == 2    \* features of the boundary file joined by main
MaxScanned == 6     \* features of a boundary file whose key is detected

SampleLocations == {"123 Main St, Los Angeles, CA 90065", "Remote",
                    "Long Beach, CA 90802-1234"}

\* The row csv.DictReader yields for a line of the file.  The file has the
\* columns save_results writes, or only the required ones.  line tells the
\* row objects of one file apart; it is no column.
CsvRow(line, location, all_columns) ==
    LET required == [line |-> line,
                     location |-> location,
                     title |-> "Opportunity " \o IntStr(line),
                     organization |-> "LA Works"]
    IN  IF all_columns
        THEN required @@ [date |-> "Ongoing", time |-> "",
                          opportunity_type |-> "Training",
                          opportunity_url |-> BASE_URL \o "/opportunity/a0CQg"]
        ELSE required

Zcta(zc, geometry) ==
    [properties |-> << <<"name", [str |-> "Area"]>>, <<"ZCTA5CE10", zc>> >>,
     geometry |-> geometry]

FeatureSamples ==
    {Zcta([str |-> "90065"], "polygon A"),
     Zcta([str |-> "90001"], "polygon B"),
     Zcta([int |-> 90802], "polygon C"),
     [properties |-> << <<"name", [str |-> "LA County"]>> >>,
      geometry |-> "polygon D"],
     [properties |-> << <<"postal", [str |-> "90065"]>> >>,
      geometry |-> "polygon E"]}

DetectSamples ==
    {[properties |-> << <<"name", [str |-> "LA County"]>>,
                        <<"GEOID10", [int |-> 90001]>> >>,
      geometry |-> "polygon D"],
     [properties |-> << <<"code", [str |-> "90210"]>>,
                        <<"zip", [str |-> "90065"]>>,
                        <<"ZIP", [str |-> "90066"]>> >>,
      geometry |-> "polygon F"],
     [properties |-> << <<"", [str |-> "90001"]>> >>,
      geometry |-> "polygon G"],
     [properties |-> << <<"fips", [str |-> "06037"]>>,
                        <<"postal", [str |-> "90002"]>>,
                        <<"ZIP", [str |-> "900020"]>> >>,
      geometry |-> "polygon H"]}

SeqsUpTo(S, n) == UNION {[1..m -> S] : m \in 0..n}

InitMap ==
    /\ ScraperIdle
    /\ ExtractIdle
    /\ RunIdle
    /\ CacheIdle
    /\ \E locs \in SeqsUpTo(SampleLocations, MaxCsvRows), all \in BOOLEAN :
          csv_rows = [k \in 1..Len(locs) |-> CsvRow(k, locs[k], all)]
    /\ boundaries = <<>>
    /\ mpc = "start"
    /\ by_zip = <<>>
    /\ virtual = <<>>
    /\ zip_key = None
    /\ features = <<>>
    /\ matched = {}
    /\ stats = NotRun
    /\ unmatched = {}

\* by_zip, virtual = group_by_zip(CSV_PATH)
GroupByZip ==
    /\ mpc = "start"
    /\ LET out == group_by_zip(csv_rows)
       IN  by_zip' = out.by_zip /\ virtual' = out.virtual
    /\ mpc' = "grouped"
    /\ UNCHANGED <<csv_rows, boundaries, zip_key, features, matched, stats,
                   unmatched>>
    /\ UNCHANGED <<scraper_vars, extract_vars, run_vars, cache_vars>>

\* boundaries = download_boundaries()
DownloadBoundaries ==
    /\ mpc = "grouped"
    /\ boundaries' \in SeqsUpTo(FeatureSamples, MaxFeatures)
    /\ mpc' = "loaded"
    /\ UNCHANGED <<csv_rows, by_zip, virtual, zip_key, features, matched, stats,
                   unmatched>>
    /\ UNCHANGED <<scraper_vars, extract_vars, run_vars, cache_vars>>

\* geojson = build_choropleth_geojson(by_zip, boundaries)
BuildChoropleth ==
    /\ mpc = "loaded"
    /\ LET out == build_choropleth_geojson(by_zip, boundaries)
       IN  /\ zip_key' = out.zip_key
           /\ IF out.raised
              THEN mpc' = "raised" /\ UNCHANGED <<features, matched, unmatched>>
              ELSE /\ mpc' = "joined"
                   /\ features' = out.features
                   /\ matched' = out.matched
                   /\ unmatched' = out.unmatched
    /\ UNCHANGED <<csv_rows, boundaries, by_zip, virtual, stats>>
    /\ UNCHANGED <<scraper_vars, extract_vars, run_vars, cache_vars>>

UnmatchedRow(r) == extract_zipcode(r.location) \in unmatched

GenerateHtml_merged ==
    /\ mpc = "joined"
    /\ stats' = generate_html(features,
                              virtual \o SelectSeq(csv_rows, UnmatchedRow))
    /\ mpc' = "done"
    /\ UNCHANGED <<csv_rows, boundaries, by_zip, virtual, zip_key, features,
                   matched, unmatched>>
    /\ UNCHANGED <<scraper_vars, extract_vars, run_vars, cache_vars>>

\* html = generate_html(geojson, virtual)
GenerateHtml ==
    /\ mpc = "joined"
    /\ stats' = generate_html(features, virtual)
    /\ mpc' = "done"
    /\ UNCHANGED <<csv_rows, boundaries, by_zip, virtual, zip_key, features,
                   matched, unmatched>>
    /\ UNCHANGED <<scraper_vars, extract_vars, run_vars, cache_vars>>

NextMap ==
    \/ GroupByZip
    \/ DownloadBoundaries
    \/ BuildChoropleth
    \/ GenerateHtml

SpecMap == InitMap /\ [][NextMap]_vars

-----------------------------------------------------------------------------
(* Zip-key detection over boundary files of any schema *)

InitDetect ==
    /\ ScraperIdle
    /\ ExtractIdle
    /\ RunIdle
    /\ CacheIdle
    /\ csv_rows = <<>>
    /\ boundaries \in SeqsUpTo(DetectSamples, MaxScanned)
    /\ mpc = "loaded"
    /\ by_zip = <<>>
    /\ virtual = <<>>
    /\ zip_key = None
    /\ features = <<>>
    /\ matched = {}
    /\ stats = NotRun
    /\ unmatched = {}

NextDetect == BuildChoropleth

SpecDetect == InitDetect /\ [][NextDetect]_vars

-----------------------------------------------------------------------------
(* The zip aggregator over location strings of any shape *)

MaxTokens == 4

\* pieces the location strings are built from
LocationTokens == {"90065", "12345", "6", "a", "_", "-", " "}

RECURSIVE Concat(_)
Concat(pieces) ==
    IF pieces = <<>> THEN "" ELSE Head(pieces) \o Concat(Tail(pieces))

\* the location column of a row: built from the tokens, a sample, or missing
Locations ==
    {Concat(pieces) : pieces \in SeqsUpTo(LocationTokens, MaxTokens)}
        \cup SampleLocations \cup {None}

InitZip ==
    /\ ScraperIdle
    /\ ExtractIdle
    /\ RunIdle
    /\ CacheIdle
    /\ \E location \in Locations : csv_rows = <<CsvRow(1, location, FALSE)>>
    /\ boundaries = <<>>
    /\ mpc = "start"
    /\ by_zip = <<>>
    /\ virtual = <<>>
    /\ zip_key = None
    /\ features = <<>>
    /\ matched = {}
    /\ stats = NotRun
    /\ unmatched = {}

NextZip == GroupByZip

\* group_by_zip over a file of one row
SpecZip == InitZip /\ [][NextZip]_vars

-----------------------------------------------------------------------------
(* src/visualize.py: the boundary source and its cache file *)

MaxCalls == 5
MaxDocuments == 2

\* the boundary documents BOUNDARIES_URL may serve
Documents == 1..MaxDocuments

\* BOUNDARIES_CACHE holding document d
File(d) == [exists |-> TRUE, data |-> d]

\* what urlopen(...) / json.loads(...) do: raise, or yield a document
Responses == {[ok |-> FALSE]} \cup {[ok |-> TRUE, data |-> d] : d \in Documents}

\* no document: the call raised
NoDocument == 0

download_boundaries_nocache(file, response, disk_ok) ==
    IF file.exists
    THEN [cache |-> file, fetched |-> 0, raised |-> FALSE, returned |-> file.data]
    ELSE IF ~response.ok
    THEN [cache |-> file, fetched |-> 1, raised |-> TRUE, returned |-> NoDocument]
    ELSE [cache |-> file, fetched |-> 1, raised |-> FALSE, returned |-> response.data]

\* download_boundaries() called with the cache file in state file; response
\* is what the remote fetch would do, disk_ok whether makedirs / open(.., "w")
\* succeed
download_boundaries(file, response, disk_ok) ==
    IF file.exists
    THEN [cache |-> file, fetched |-> 0, raised |-> FALSE, returned |-> file.data]
    ELSE IF ~response.ok
    THEN [cache |-> file, fetched |-> 1, raised |-> TRUE, returned |-> NoDocument]
    ELSE IF ~disk_ok
    THEN [cache |-> file, fetched |-> 1, raised |-> TRUE, returned |-> NoDocument]
    ELSE [cache |-> File(response.data), fetched |-> 1, raised |-> FALSE,
          returned |-> response.data]

\* the earlier call returned a document and the cache file was not removed
\* since
AfterSuccess == call # NotCalled /\ ~call.raised /\ ~call.removed_since

\* one call of download_boundaries
Download(response, disk_ok) ==
    /\ calls < MaxCalls
    /\ LET out == download_boundaries(cache, response, disk_ok)
       IN  /\ cache' = out.cache
           /\ fetches' = fetches + out.fetched
           /\ call' = [cache_before |-> cache, cache_after |-> out.cache,
                       fetched |-> out.fetched, raised |-> out.raised,
                       returned |-> out.returned,
                       after_success |-> AfterSuccess,
                       removed_since |-> FALSE]
    /\ calls' = calls + 1
    /\ UNCHANGED <<scraper_vars, extract_vars, map_vars, run_vars>>

\* a call that finds the cache file
DownloadCached ==
    /\ cache.exists
    /\ Download([ok |-> FALSE], TRUE)

\* a call that does not find it
DownloadFetch ==
    /\ ~cache.exists
    /\ \E response \in Responses, disk_ok \in BOOLEAN : Download(response, disk_ok)

\* somebody deletes data/ca_zipcodes.geojson between two calls
RemoveCache ==
    /\ cache.exists
    /\ cache' = NoFile
    /\ call' = IF call = NotCalled THEN call
               ELSE [call EXCEPT !.removed_since = TRUE]
    /\ UNCHANGED <<fetches, calls>>
    /\ UNCHANGED <<scraper_vars, extract_vars, map_vars, run_vars>>

InitCache ==
    /\ ScraperIdle
    /\ ExtractIdle
    /\ MapIdle
    /\ RunIdle
    /\ cache \in {NoFile} \cup {File(d) : d \in Documents}
    /\ fetches = 0
    /\ calls = 0
    /\ call = NotCalled

NextCache ==
    \/ DownloadCached
    \/ DownloadFetch
    \/ RemoveCache

\* any sequence of download_boundaries calls and cache removals
SpecCache == InitCache /\ [][NextCache]_vars

-----------------------------------------------------------------------------
(* Properties of the incremental loader and the result harvester *)

\* C1: in one call of _load_all_results the number of clicks on the "load
\* more" control never exceeds MAX_LOAD_MORE_CLICKS, whatever the control and
\* the row count do.
C1_ClickCap == clicks <= MAX_LOAD_MORE_CLICKS

\* the control stayed present and the rows kept growing until the cap
C1_Witness ==
    /\ pc = "extract"
    /\ exit_state = "cap-reached"
    /\ clicks = MAX_LOAD_MORE_CLICKS

\* the title and organization anchors exist and hold text
ValidAnchors(r) ==
    /\ r.title # None /\ Strip(r.title) # ""
    /\ r.organization # None /\ Strip(r.organization) # ""

\* C3: every record the harvester returns has a non-empty title and a
\* non-empty organization: a row whose title or organization anchor is
\* missing, or holds no text after trimming, yields no record, and a row
\* with valid anchors yields exactly one.
C3_TitleAndOrganizationNonEmpty ==
    pc = "returned" =>
        /\ \A k \in 1..Len(opportunities) :
              /\ opportunities[k].title # ""
              /\ opportunities[k].organization # ""
        /\ \A n \in 0..(count - 1) :
              Cardinality({k \in 1..Len(sources) : sources[k] = n})
                  = IF ValidAnchors(RowAt(page_rows, n)) THEN 1 ELSE 0

\* row indexes 0..n-1 in order
Indexes(n) == [k \in 1..n |-> k - 1]

\* each[j] is what _extract_row does with row j of the cycle; the harvest
\* recorded in the state is the one C8 describes
HarvestIsExact(each) ==
    /\ attempted = Indexes(count)
    /\ Len(opportunities) = Len(sources)
    /\ \A k \in 1..Len(sources) :
          /\ sources[k] \in 0..(count - 1)
          /\ ~RowAt(each, sources[k]).raised
          /\ opportunities[k] = RowAt(each, sources[k]).opp
    /\ \A k \in 1..(Len(sources) - 1) : sources[k] < sources[k + 1]
    /\ \A n \in 0..(count - 1) :
          ~RowAt(each, n).raised => \E k \in 1..Len(sources) : sources[k] = n

\* C8: a row whose extraction fails is skipped; _extract_all_rows still hands
\* every row index present at its start to _extract_row, does not raise, and
\* returns exactly the records of the rows that extracted, in row order.
C8_RowFailureContained ==
    /\ error # "extract"
    /\ pc = "returned" => HarvestIsExact(ExtractEach(page_rows))

\* a failing row lies between two rows that were extracted
C8_Witness ==
    /\ pc = "returned"
    /\ count = 3
    /\ sources = <<0, 2>>
    /\ _extract_row(RowAt(page_rows, 1)).raised

-----------------------------------------------------------------------------
(* Properties of the field extractor *)

Extracted == result # NotRun /\ ~result.raised

\* the two characters are the same letter, whatever their case
SameLetter(c, d) == LowerChar(c) = LowerChar(d)

\* s contains the word m in some mix of upper and lower case
ContainsAnyCase(s, m) ==
    \E k \in 1..(Len(s) - Len(m) + 1) :
        \A j \in 1..Len(m) : SameLetter(Char(s, k + j - 1), Char(m, j))

NoSubElements(tc) ==
    tc.date_el = None /\ tc.time_el = None /\ tc.dur_el = None

\* C5: for a row whose time cell has no date, time or duration sub-element,
\* the record's date is "Ongoing" when the raw cell text contains "ongoing"
\* in any letter case and stays empty otherwise; time and duration are empty.
C5_OngoingFallback ==
    (Extracted /\ NoSubElements(row.time_cell)) =>
        /\ result.opp.time = None
        /\ result.opp.duration = None
        /\ result.opp.date =
              IF ContainsAnyCase(TimeCellInnerText(row.time_cell), "ongoing")
              THEN "Ongoing" ELSE None

C5_Witness ==
    /\ Extracted
    /\ NoSubElements(row.time_cell)
    /\ row.time_cell.text = "ONGOING need"
    /\ result.opp.date = "Ongoing"

\* C17: the "Ongoing" fallback is applied only when the time cell has no
\* date sub-element: for a row with a date sub-element the raw cell text is
\* not consulted, and the record's date is the trimmed text of that
\* sub-element, never the "Ongoing" of the fallback.
C17_FallbackOnlyWithoutDateElement ==
    (Extracted /\ row.time_cell.date_el # None) =>
        result.opp.date = Strip(row.time_cell.date_el)

\* an absolute URL names its scheme and host
IsAbsoluteUrl(u) == StartsWith(u, "http://") \/ StartsWith(u, "https://")

\* C9: in every extracted record the opportunity URL and the organization
\* URL are, when present, absolute URLs.
C9_UrlsAbsolute ==
    pc = "returned" =>
        \A k \in 1..Len(opportunities) :
            /\ Truthy(opportunities[k].opportunity_url)
                  => IsAbsoluteUrl(opportunities[k].opportunity_url)
            /\ Truthy(opportunities[k].organization_url)
                  => IsAbsoluteUrl(opportunities[k].organization_url)

TypeNames == {"Volunteer Opportunity", "Special Event", "Already Filled",
              "Training"}

\* the type the claim names for a class attribute
MarkerType(cls) ==
    IF Contains(cls, "blue-key") THEN "Volunteer Opportunity"
    ELSE IF Contains(cls, "green-key") THEN "Special Event"
    ELSE IF Contains(cls, "light-gray-key") THEN "Already Filled"
    ELSE IF Contains(cls, "yellow-key") THEN "Training"
    ELSE "Volunteer Opportunity"

\* C10: the opportunity type of every extracted record is one of the four
\* enumerated values: that of the first marker class, in the order blue-key,
\* green-key, light-gray-key, yellow-key, occurring in the anchor's class
\* attribute, and "Volunteer Opportunity" when none occurs or the attribute
\* is missing; the class attribute never makes the row fail.
C10_OpportunityType ==
    /\ Extracted =>
          /\ result.opp.opportunity_type \in TypeNames
          /\ result.opp.opportunity_type = MarkerType(Txt(row.link_class))
    /\ (result # NotRun /\ result.raised) =>
          _extract_row([row EXCEPT !.link_class = "blue-key"]).raised

\* a later marker in the attribute wins over an earlier one by priority
C10_Witness ==
    /\ Extracted
    /\ row.link_class = "yellow-key green-key"
    /\ result.opp.opportunity_type = "Special Event"

-----------------------------------------------------------------------------
(* Properties of the zip aggregator, the boundary matcher and the builder *)

Grouped == mpc # "start" /\ mpc # "idle"

RECURSIVE DigitRun(_, _)
\* length of the run of digits of s that starts at position k
DigitRun(s, k) ==
    IF k <= Len(s) /\ Char(s, k) \in Digits THEN 1 + DigitRun(s, k + 1) ELSE 0

\* the character of s at position k is a letter or an underscore
LetterAt(s, k) == k >= 1 /\ k <= Len(s) /\ Char(s, k) \in Letters \cup {"_"}

\* starts of the maximal digit runs of s that have exactly five digits and
\* touch no letter and no underscore
StandaloneRuns(s) ==
    {k \in 1..Len(s) :
        /\ DigitRun(s, k) = 5
        /\ k = 1 \/ Char(s, k - 1) \notin Digits
        /\ ~LetterAt(s, k - 1)
        /\ ~LetterAt(s, k + 5)}

\* the leftmost standalone run of five digits of s, or None
LeftmostStandalone(s) ==
    IF StandaloneRuns(s) = {} THEN None
    ELSE LET k == CHOOSE i \in StandaloneRuns(s) :
                      \A j \in StandaloneRuns(s) : i <= j
         IN  SubSeq(s, k, k + 4)

\* C18: the bucket key of a row is the leftmost standalone run of exactly
\* five digits of its location (a run touching no other digit, no letter and
\* no underscore), unchanged; a row whose location has no such run, is empty
\* or is missing goes to the virtual list.
C18_LeftmostStandaloneZip ==
    (Grouped /\ Len(csv_rows) = 1) =>
        LET location == csv_rows[1].location
            zc == LeftmostStandalone(IF location = None THEN "" ELSE location)
        IN  IF zc = None
            THEN DOMAIN by_zip = {} /\ virtual = csv_rows
            ELSE /\ DOMAIN by_zip = {zc}
                 /\ by_zip[zc] = csv_rows
                 /\ virtual = <<>>

\* a six-digit run is passed over and the five-digit run after it is the key
C18_Witness ==
    /\ mpc = "grouped"
    /\ Len(csv_rows) = 1
    /\ csv_rows[1].location = "123456 90065"
    /\ DOMAIN by_zip = {"90065"}

\* places of the buckets that hold row r
BucketPlaces(r) ==
    {p \in (DOMAIN by_zip) \X (1..Len(csv_rows)) :
        p[2] <= Len(by_zip[p[1]]) /\ by_zip[p[1]][p[2]] = r}

\* places of the virtual list that hold row r
VirtualPlaces(r) == {j \in 1..Len(virtual) : virtual[j] = r}

RECURSIVE BucketTotal(_)
\* the sum of the bucket sizes over the zip codes in keys
BucketTotal(keys) ==
    IF keys = {} THEN 0
    ELSE LET z == CHOOSE z \in keys : TRUE
         IN  Len(by_zip[z]) + BucketTotal(keys \ {z})

\* C2: group_by_zip places every input row in exactly one place, a bucket of
\* one zip code or the virtual list: no row is dropped or placed twice, the
\* buckets and the list hold input rows only, and the bucket sizes plus the
\* length of the virtual list add up to the number of input rows.
C2_PartitionTotal ==
    Grouped =>
        /\ \A k \in 1..Len(csv_rows) :
              Cardinality(BucketPlaces(csv_rows[k]))
                  + Cardinality(VirtualPlaces(csv_rows[k])) = 1
        /\ \A z \in DOMAIN by_zip : \A j \in 1..Len(by_zip[z]) :
              \E k \in 1..Len(csv_rows) : by_zip[z][j] = csv_rows[k]
        /\ \A j \in 1..Len(virtual) :
              \E k \in 1..Len(csv_rows) : virtual[j] = csv_rows[k]
        /\ BucketTotal(DOMAIN by_zip) + Len(virtual) = Len(csv_rows)

\* two rows share a bucket and a third has no zip code
C2_Witness ==
    /\ mpc = "grouped"
    /\ Len(csv_rows) = 3
    /\ Len(virtual) = 1
    /\ \E z \in DOMAIN by_zip : Len(by_zip[z]) = 2

Joined == mpc \in {"joined", "done"}

\* the zip value of a boundary feature, read under the detected key
ZipOf(feature) == PyStr(PropGet(feature.properties, zip_key, [str |-> ""]))

\* the boundary features whose zip value is a key of the aggregation
Hits == {k \in 1..Len(boundaries) : ZipOf(boundaries[k]) \in DOMAIN by_zip}

\* the j-th of them in file order
Hit(j) == CHOOSE k \in Hits : Cardinality({h \in Hits : h <= k}) = j

\* C4: build_choropleth_geojson emits a joined feature for a boundary feature
\* exactly when the feature's zip value is a key of the aggregation; the
\* joined feature carries that feature's geometry, that zip as zipcode, the
\* size of the zip's bucket as count (at least 1) and one summary per record
\* of the bucket, in bucket order.
C4_JoinedFeatures ==
    Joined =>
        /\ Len(features) = Cardinality(Hits)
        /\ \A j \in 1..Len(features) :
              LET f == boundaries[Hit(j)]
                  zc == ZipOf(f)
                  props == features[j].properties
              IN  /\ features[j].geometry = f.geometry
                  /\ props.zipcode = zc
                  /\ props.count = Len(by_zip[zc])
                  /\ props.count >= 1
                  /\ Len(props.opportunities) = Len(by_zip[zc])
                  /\ \A m \in 1..Len(by_zip[zc]) :
                        /\ props.opportunities[m].title = by_zip[zc][m]["title"]
                        /\ props.opportunities[m].organization
                              = by_zip[zc][m]["organization"]

\* one boundary feature joins a bucket of two records, another joins nothing
C4_Witness ==
    /\ mpc = "joined"
    /\ Len(boundaries) = 2
    /\ Len(features) = 1
    /\ features[1].properties.count = 2

FiveDigits(s) == Len(s) = 5 /\ \A j \in 1..5 : Char(s, j) \in Digits

\* positions of the properties of f whose value is a string of five digits
ZipProps(f) ==
    {j \in 1..Len(f.properties) :
        IsStr(f.properties[j][2]) /\ FiveDigits(f.properties[j][2].str)}

\* the key the claim names for a feature that has such a property
ClaimedKey(f) ==
    LET keys == {f.properties[j][1] : j \in ZipProps(f)}
        named == {k \in 1..Len(ZIP_KEY_CANDIDATES) : ZIP_KEY_CANDIDATES[k] \in keys}
    IN  IF named # {} THEN ZIP_KEY_CANDIDATES[Min(named)]
        ELSE f.properties[Min(ZipProps(f))][1]

\* the scanned features that have such a property
Viable == {k \in 1..Len(boundaries) : k <= SCAN_LIMIT /\ ZipProps(boundaries[k]) # {}}

\* C6: zip-key detection succeeds whenever a scanned leading feature has a
\* property whose value is a string of five digits, whatever the key is
\* named, and the key is the one the first such feature gives: its first
\* candidate name with such a value, else its first key with such a value.
C6_KeyDetected ==
    (mpc # "loaded" /\ Viable # {}) =>
        /\ mpc # "raised"
        /\ zip_key = ClaimedKey(boundaries[Min(Viable)])

\* C7: the maximum per-feature count generate_html computes is the largest
\* count among the joined features, and 1 when there is none; it is at
\* least 1.
C7_MaxCount ==
    mpc = "done" =>
        /\ stats.max_count >= 1
        /\ features = <<>> => stats.max_count = 1
        /\ features # <<>> =>
              /\ \E j \in 1..Len(features) :
                    stats.max_count = features[j].properties.count
              /\ \A j \in 1..Len(features) :
                    features[j].properties.count <= stats.max_count

\* records were grouped by zip and no boundary feature matched any of them
C7_Witness ==
    /\ mpc = "done"
    /\ features = <<>>
    /\ DOMAIN by_zip # {}
    /\ stats.max_count = 1

\* the join is over: it raised, or it produced the collection
Built == mpc \in {"raised", "joined", "done"}

\* C13: when no scanned boundary feature gives a zip key (none has a property
\* whose value is a string of five digits, or there is no feature at all),
\* build_choropleth_geojson raises; and when it raises, no boundary feature
\* has been matched, no joined feature exists and nothing is handed to
\* generate_html.
C13_NoKeyNoJoin ==
    /\ (Built /\ Viable = {}) => mpc = "raised"
    /\ mpc = "raised" =>
          /\ ~Truthy(zip_key)
          /\ features = <<>>
          /\ matched = {}
          /\ unmatched = {}
          /\ stats = NotRun

\* the only boundary feature holds the zip of a bucket as a JSON number
C13_Witness ==
    /\ mpc = "raised"
    /\ boundaries = <<Zcta([int |-> 90802], "polygon C")>>
    /\ "90802" \in DOMAIN by_zip

\* the zip codes of the boundary features that joined
JoinedZips == {ZipOf(boundaries[k]) : k \in Hits}

\* the records of the buckets of the zip codes in keys
RecordsOf(keys) == {by_zip[z][m] : <<z, m>> \in {p \in keys \X (1..Len(csv_rows)) :
                                                 p[2] <= Len(by_zip[p[1]])}}

\* C14: a zip code of the aggregation that matches no boundary feature does
\* not make the join fail; the unmatched set reported is the aggregation keys
\* minus the zips that joined; the records of an unmatched zip are in no
\* joined feature and not in the virtual list, and generate_html receives
\* the virtual list of the aggregator, unchanged.
C14_UnmatchedReportedOnly ==
    /\ mpc = "raised" => ~Truthy(zip_key)
    /\ Joined =>
          /\ unmatched = DOMAIN by_zip \ JoinedZips
          /\ \A j \in 1..Len(features) :
                /\ features[j].properties.zipcode \notin unmatched
                /\ \A r \in RecordsOf(unmatched) :
                      \A m \in 1..Len(features[j].properties.opportunities) :
                          features[j].properties.opportunities[m].title # r.title
          /\ \A r \in RecordsOf(unmatched) : VirtualPlaces(r) = {}
          /\ \A j \in 1..Len(virtual) :
                LeftmostStandalone(IF virtual[j].location = None THEN ""
                                   ELSE virtual[j].location) = None
    /\ mpc = "done" =>
          /\ stats.virtual_count = Len(virtual)
          /\ Len(stats.virtual_list) = Len(virtual)
          /\ \A j \in 1..Len(virtual) :
                stats.virtual_list[j].title = virtual[j].title

\* one zip joined, another did not, and the page was generated
C14_Witness ==
    /\ mpc = "done"
    /\ unmatched # {}
    /\ matched # {}
    /\ Len(virtual) = 1
    /\ stats.virtual_count = 1

\* C19: the joined collection has at most one feature per zip code, whatever
\* the boundary file holds; so the zip count is the number of distinct zips
\* that joined, and the total mapped is at most the number of records in the
\* buckets.
C19_OneFeaturePerZip ==
    /\ Joined =>
          \A i, j \in 1..Len(features) :
              i # j => features[i].properties.zipcode # features[j].properties.zipcode
    /\ mpc = "done" =>
          /\ stats.total_zips = Cardinality(JoinedZips)
          /\ stats.total_mapped <= BucketTotal(DOMAIN by_zip)

-----------------------------------------------------------------------------
(* src/main.py: run, around one scrape_search_results call *)

MaxInterruptRow == 2

\* the pages the site serves in the runs of main.run
RunPages == {<<BrokenRow>>, <<OngoingRow>>, <<BlankRow>>, <<GoodRow, BrokenRow>>}

\* save_results(records): the JSON file is written first, then the CSV file;
\* disk tells which write, if any, raises
save_results(records, disk) ==
    [json |-> disk # "json_fails",
     csv |-> disk = "ok",
     records |-> IF disk = "json_fails" THEN <<>> ELSE records]

\* finally: await scraper.stop()
Stop ==
    /\ stops' = stops + 1
    /\ rpc' = "done"

InitRun ==
    /\ ScraperIdle
    /\ ExtractIdle
    /\ MapIdle
    /\ CacheIdle
    /\ rpc = "start"
    /\ stops = 0
    /\ saved = NotSaved
    /\ run_error = None

\* await scraper.start() returns; scrape_search_results is entered on a page
\* of the site
RunStart ==
    /\ rpc = "start"
    /\ rpc' = "scrape"
    /\ pc' = "goto"
    /\ page_rows' \in RunPages
    /\ Did(<<"start">>)
    /\ UNCHANGED <<row_count, click_num, clicks, exit_state, count, error,
                   opportunities, sources, attempted>>
    /\ UNCHANGED <<stops, saved, run_error>>
    /\ UNCHANGED <<extract_vars, map_vars, cache_vars>>

\* await scraper.start() raises (no browser): the finally clause runs
RunStartFails ==
    /\ rpc = "start"
    /\ run_error' = "start"
    /\ Stop
    /\ Did(<<"start", "stop">>)
    /\ UNCHANGED <<pc, page_rows, row_count, click_num, clicks, exit_state,
                   count, error, opportunities, sources, attempted>>
    /\ UNCHANGED saved
    /\ UNCHANGED <<extract_vars, map_vars, cache_vars>>

\* the interrupt arrives while scrape_search_results awaits the navigation,
\* the first row, the settle delay or the loader
InterruptScrape ==
    /\ rpc = "scrape"
    /\ pc \in {"goto", "wait_rows", "settle", "load"}
    /\ pc' = "interrupted"
    /\ UNCHANGED <<page_rows, row_count, click_num, clicks, exit_state, count,
                   error, opportunities, sources, attempted, events>>
    /\ UNCHANGED <<run_vars, extract_vars, map_vars, cache_vars>>

\* the interrupt arrives while _extract_all_rows awaits the extraction of row
\* k: rows 0..k-1 have been handled, their records are in opportunities
ExtractInterrupted ==
    /\ rpc = "scrape"
    /\ pc = "extract"
    /\ count' = row_count
    /\ \E k \in 0..MaxInterruptRow :
          /\ k < row_count
          /\ LET out == ExtractLoop(ExtractEach(page_rows), 0, k, NoRows)
             IN  /\ opportunities' = out.opportunities
                 /\ sources' = out.sources
                 /\ attempted' = out.attempted
    /\ pc' = "interrupted"
    /\ Did(<<"extract">>)
    /\ UNCHANGED <<page_rows, row_count, click_num, clicks, exit_state, error>>
    /\ UNCHANGED <<run_vars, extract_vars, map_vars, cache_vars>>

\* except KeyboardInterrupt: logger.info("Interrupted. Saving partial
\* results..."), then the finally clause; when the event loop delivers the
\* interrupt as a cancellation instead, the handler is skipped and the
\* cancellation leaves run after the finally clause
RunInterrupted ==
    /\ rpc = "scrape"
    /\ pc = "interrupted"
    /\ \E caught \in BOOLEAN :
          run_error' = IF caught THEN None ELSE "cancelled"
    /\ Stop
    /\ Did(<<"stop">>)
    /\ UNCHANGED <<pc, page_rows, row_count, click_num, clicks, exit_state,
                   count, error, opportunities, sources, attempted>>
    /\ UNCHANGED saved
    /\ UNCHANGED <<extract_vars, map_vars, cache_vars>>

\* if not opportunities: logger.warning("No opportunities found!"); return
RunEmpty ==
    /\ rpc = "scrape"
    /\ pc = "returned"
    /\ opportunities = <<>>
    /\ Stop
    /\ Did(<<"stop">>)
    /\ UNCHANGED <<pc, page_rows, row_count, click_num, clicks, exit_state,
                   count, error, opportunities, sources, attempted>>
    /\ UNCHANGED <<saved, run_error>>
    /\ UNCHANGED <<extract_vars, map_vars, cache_vars>>

\* records = [opp.to_dict() ...]; save_results(records); the summary
RunSave ==
    /\ rpc = "scrape"
    /\ pc = "returned"
    /\ opportunities # <<>>
    /\ \E disk \in {"ok", "json_fails", "csv_fails"} :
          /\ saved' = save_results(opportunities, disk)
          /\ run_error' = IF disk = "ok" THEN None ELSE "save"
    /\ Stop
    /\ Did(<<"save", "stop">>)
    /\ UNCHANGED <<pc, page_rows, row_count, click_num, clicks, exit_state,
                   count, error, opportunities, sources, attempted>>
    /\ UNCHANGED <<extract_vars, map_vars, cache_vars>>

RunRaised_nostop ==
    /\ rpc = "scrape"
    /\ pc = "raised"
    /\ run_error' = error
    /\ rpc' = "done"
    /\ UNCHANGED <<stops, saved>>
    /\ UNCHANGED <<scraper_vars, extract_vars, map_vars, cache_vars>>

\* scrape_search_results raised: the exception passes the KeyboardInterrupt
\* handler and leaves run after the finally clause
RunRaised ==
    /\ rpc = "scrape"
    /\ pc = "raised"
    /\ run_error' = error
    /\ Stop
    /\ Did(<<"stop">>)
    /\ UNCHANGED <<pc, page_rows, row_count, click_num, clicks, exit_state,
                   count, error, opportunities, sources, attempted>>
    /\ UNCHANGED saved
    /\ UNCHANGED <<extract_vars, map_vars, cache_vars>>

NextRun ==
    \/ RunStart
    \/ RunStartFails
    \/ NextScraper
    \/ InterruptScrape
    \/ ExtractInterrupted
    \/ RunInterrupted
    \/ RunEmpty
    \/ RunSave
    \/ RunRaised

\* one execution of main.run
SpecRun == InitRun /\ [][NextRun]_vars

-----------------------------------------------------------------------------
(* Properties of scrape_search_results and of the loader *)

\* number of times operation e was performed
Times(e) == Cardinality({k \in 1..Len(events) : events[k] = e})

\* the steps of scrape_search_results, in the order of the code
StepOrder == <<"navigate", "wait", "settle", "load", "extract">>

IsStep(e) == \E k \in 1..Len(StepOrder) : StepOrder[k] = e

\* the steps performed so far
Steps == SelectSeq(events, IsStep)

IsPrefix(s, t) == Len(s) <= Len(t) /\ s = SubSeq(t, 1, Len(s))

\* C15: scrape_search_results performs navigation, the wait for the first
\* row, the settle delay, the loader and the extraction in this order, each
\* at most once; when the navigation or the wait for the first row fails, the
\* call raises, and neither the loader nor the extractor has run and no
\* record list is returned.
C15_StepsInOrder ==
    /\ IsPrefix(Steps, StepOrder)
    /\ pc = "returned" => Steps = StepOrder
    /\ error \in {"goto", "wait_rows"} =>
          /\ pc = "raised"
          /\ Times("load") = 0
          /\ Times("click") = 0
          /\ Times("extract") = 0
          /\ clicks = 0
          /\ attempted = <<>>
          /\ opportunities = <<>>

\* no row was attached within the timeout
C15_Witness ==
    /\ pc = "raised"
    /\ error = "wait_rows"
    /\ events = <<"navigate", "wait">>

\* the loader saw its control absent or hidden, or a wait for growth time out
Signalled == Times("no-control") + Times("wait-timeout") > 0

\* no click follows the absence of the control or a timed-out wait
NoClickAfterSignal ==
    \A i \in 1..Len(events) :
        events[i] \in {"no-control", "wait-timeout"} =>
            \A j \in (i + 1)..Len(events) : events[j] # "click"

\* _load_all_results was entered and is over
LoaderLeft == Times("load") = 1 /\ pc # "load"

ReturnedNormally == pc \in {"extract", "returned"} /\ error = None

-----------------------------------------------------------------------------
(* Properties of main.run *)

\* C12: when the interrupt arrives during the harvest after some records
\* have been extracted, run ends with those records written to the output
\* files.
C12_PartialResultsSaved ==
    (rpc = "done" /\ pc = "interrupted" /\ opportunities # <<>>) =>
        /\ saved.json
        /\ saved.csv
        /\ saved.records = opportunities

\* C20: scraper.stop() is invoked exactly once in every execution of run,
\* after the last scraper operation, whether run ends after saving, on an
\* empty result, on a failure of start or of the scrape, or on an interrupt;
\* on an empty result nothing is written and run ends without an error.
C20_StopExactlyOnce ==
    /\ stops = Times("stop")
    /\ stops <= 1
    /\ rpc = "done" <=> stops = 1
    /\ stops = 1 =>
          /\ events[Len(events)] = "stop"
          /\ pc \in {"idle", "returned", "raised", "interrupted"}
    /\ (rpc = "done" /\ pc = "returned" /\ opportunities = <<>>) =>
          /\ saved = NotSaved
          /\ run_error = None

\* the scrape returned no record and run ended
C20_Witness ==
    /\ rpc = "done"
    /\ pc = "returned"
    /\ opportunities = <<>>
    /\ count > 0
    /\ stops = 1

-----------------------------------------------------------------------------
(* Properties of the boundary cache *)

====
